---- MODULE Spec2Model ----
(***************************************************************************)
(* plex2netflix (src/main.go): scan of a Plex library against the uNoGS     *)
(* catalog.  Strings are modelled as sequences of one-character strings so  *)
(* that the title normalisation of findNetflixID is computed, not assumed.  *)
(***************************************************************************)
EXTENDS Integers, Sequences, FiniteSets, TLC

(***************************************************************************)
(* Bounds of the model.                                                     *)
(***************************************************************************)
\* longest raw title fed to the normaliser specification
MaxLen == 7
\* most entries in ITEMS of a search response / in RESULT.country
MaxItems == 2
\* most libraries (sections) and most items per library
MaxLibs == 2
MaxPerLib == 2

(***************************************************************************)
(* Strings.                                                                 *)
(***************************************************************************)
Digits == {"1"}
Spaces == {" "}
Apostrophe == "'"
\* the characters from which raw titles of the normaliser specification are drawn
NormChars == {"a", "'", " ", "(", ")", "1"}
\* bytes below 0x20 and 0x7f, which url.Parse rejects
CtlChars == {"\n"}

(***************************************************************************)
(* Title normalisation, findNetflixID lines 96-102.                         *)
(***************************************************************************)
\* regexp `\(\d{4}\)$`: the text ends in "(", four digits, ")"
EndsWithYear(s) ==
    /\ Len(s) >= 6
    /\ s[Len(s) - 5] = "("
    /\ \A i \in (Len(s) - 4)..(Len(s) - 1) : s[i] \in Digits
    /\ s[Len(s)] = ")"

\* r.ReplaceAllString(title, ""): the pattern is anchored at the end of the
\* text, so at most one match exists and it is the last six bytes
StripYear(s) == IF EndsWithYear(s) THEN SubSeq(s, 1, Len(s) - 6) ELSE s

\* a seeded fault: only the first apostrophe is removed (n = 1 instead of -1)
RECURSIVE RemoveFirstApostrophe(_)
RemoveFirstApostrophe(s) ==
    IF s = << >> THEN << >>
    ELSE IF Head(s) = Apostrophe THEN Tail(s)
    ELSE <<Head(s)>> \o RemoveFirstApostrophe(Tail(s))

\* strings.Replace(title, "'", "", -1)
RECURSIVE RemoveApostrophes(_)
RemoveApostrophes(s) ==
    IF s = << >> THEN << >>
    ELSE IF Head(s) = Apostrophe THEN RemoveApostrophes(Tail(s))
    ELSE <<Head(s)>> \o RemoveApostrophes(Tail(s))

\* strings.TrimSpace(title)
RECURSIVE TrimLeft(_)
TrimLeft(s) ==
    IF s # << >> /\ Head(s) \in Spaces THEN TrimLeft(Tail(s)) ELSE s

RECURSIVE TrimRight(_)
TrimRight(s) ==
    IF s # << >> /\ s[Len(s)] \in Spaces
    THEN TrimRight(SubSeq(s, 1, Len(s) - 1)) ELSE s

TrimSpace(s) == TrimRight(TrimLeft(s))

Normalize(s) == TrimSpace(RemoveApostrophes(StripYear(s)))

(***************************************************************************)
(* Errors: the root cause and the layers of context errors.Wrap added,     *)
(* outermost first.                                                         *)
(***************************************************************************)
Nil == [kind |-> "nil", layers |-> << >>]

NewError(kind) == [kind |-> kind, layers |-> << >>]

\* errors.Wrap / errors.Wrapf
Wrap(e, msg) == [e EXCEPT !.layers = <<msg>> \o @]

(***************************************************************************)
(* URLs and the catalog service's answers.                                  *)
(***************************************************************************)
\* url.QueryEscape, byte by byte
EscapeChar(c) ==
    CASE c = " "  -> <<"+">>
      [] c = "'"  -> <<"%", "2", "7">>
      [] c = "("  -> <<"%", "2", "8">>
      [] c = ")"  -> <<"%", "2", "9">>
      [] c = "\n" -> <<"%", "0", "A">>
      [] OTHER    -> <<c>>

RECURSIVE QueryEscape(_)
QueryEscape(s) ==
    IF s = << >> THEN << >> ELSE EscapeChar(Head(s)) \o QueryEscape(Tail(s))

\* fmt.Sprintf of the search URL: the escaped title and the year (twice)
SearchURL(title, year) ==
    [endpoint |-> "search", q |-> QueryEscape(title), year |-> year]

\* fmt.Sprintf of the detail URL: the identifier is embedded as it is
DetailURL(id) == [endpoint |-> "detail", q |-> id, year |-> 0]

\* http.NewRequest fails when url.Parse does: a control byte in the URL
URLInvalid(url) == \E i \in 1..Len(url.q) : url.q[i] \in CtlChars

\* HTTP statuses the service may answer with; callUnogs never reads them
Statuses == {200, 500}

SeqsUpTo(S, n) == UNION {[1..k -> S] : k \in 0..n}

\* an entry of ITEMS is a map[string]string: any of the two keys may be absent
ItemTitles == {<<"a">>, <<"A">>}
ItemIds == {<<"1">>, <<"\n">>}
ItemMaps ==
    {[k \in {"title", "netflixid"} |-> IF k = "title" THEN t ELSE i] :
        t \in ItemTitles, i \in ItemIds}
    \cup {[k \in {"title"} |-> <<"a">>]}
    \cup {[k \in {"netflixid"} |-> <<"1">>]}

\* item["key"]: the zero value "" for an absent key
MapGet(m, k) == IF k \in DOMAIN m THEN m[k] ELSE << >>

CountryCodes == {"us", "ca"}

\* a body that is no JSON of the expected shape (json.Unmarshal fails)
Garbage == [valid |-> FALSE, items |-> << >>, country |-> << >>]

\* bodies json.Unmarshal accepts into unogsResponse; unknown fields are ignored
\* and an absent ITEMS is the empty list
SearchBodies ==
    {Garbage} \cup
    {[valid |-> TRUE, items |-> is, country |-> << >>] : is \in SeqsUpTo(ItemMaps, MaxItems)}

\* bodies json.Unmarshal accepts into netflixLookup; an absent RESULT or
\* country is the empty list
DetailBodies ==
    {Garbage} \cup
    {[valid |-> TRUE, items |-> << >>, country |-> cs] : cs \in SeqsUpTo(CountryCodes, MaxItems)}

\* what the network does with one request
NetOutcomes(bodies) ==
    {[kind |-> "transport", status |-> 0, body |-> Garbage]}
    \cup {[kind |-> "bodyread", status |-> st, body |-> Garbage] : st \in Statuses}
    \cup {[kind |-> "ok", status |-> st, body |-> b] : st \in Statuses, b \in bodies}

NoResp == [kind |-> "none", status |-> 0, body |-> Garbage]

\* a seeded fault: a non-2xx status is turned into an error
CallUnogsStatusChecked(url, net) ==
    IF URLInvalid(url)
    THEN [bytes |-> Garbage, err |-> Wrap(NewError("requestBuild"), "creating request"),
          sent |-> << >>]
    ELSE IF net.kind = "transport"
    THEN [bytes |-> Garbage, err |-> NewError("transport"), sent |-> <<url>>]
    ELSE IF net.status # 200
    THEN [bytes |-> Garbage, err |-> NewError("status"), sent |-> <<url>>]
    ELSE IF net.kind = "bodyread"
    THEN [bytes |-> Garbage, err |-> Wrap(NewError("bodyRead"), "reading uNoGS body"),
          sent |-> <<url>>]
    ELSE [bytes |-> net.body, err |-> Nil, sent |-> <<url>>]

\* a seeded fault: a failed request is sent a second time
CallUnogsRetrying(url, net) ==
    IF URLInvalid(url)
    THEN [bytes |-> Garbage, err |-> Wrap(NewError("requestBuild"), "creating request"),
          sent |-> << >>]
    ELSE IF net.kind = "transport"
    THEN [bytes |-> Garbage, err |-> NewError("transport"), sent |-> <<url, url>>]
    ELSE IF net.kind = "bodyread"
    THEN [bytes |-> Garbage, err |-> Wrap(NewError("bodyRead"), "reading uNoGS body"),
          sent |-> <<url>>]
    ELSE [bytes |-> net.body, err |-> Nil, sent |-> <<url>>]

\* callUnogs: the bytes, the error, and the requests handed to httpClient.Do
CallUnogs(url, net) ==
    IF URLInvalid(url)
    THEN [bytes |-> Garbage, err |-> Wrap(NewError("requestBuild"), "creating request"),
          sent |-> << >>]
    ELSE IF net.kind = "transport"
    THEN [bytes |-> Garbage, err |-> NewError("transport"), sent |-> <<url>>]
    ELSE IF net.kind = "bodyread"
    THEN [bytes |-> Garbage, err |-> Wrap(NewError("bodyRead"), "reading uNoGS body"),
          sent |-> <<url>>]
    ELSE [bytes |-> net.body, err |-> Nil, sent |-> <<url>>]

(***************************************************************************)
(* findNetflixID and findOnNetflixUSA.                                      *)
(***************************************************************************)
\* a seeded fault: the last matching entry wins
RECURSIVE ScanItemsLast(_, _)
ScanItemsLast(items, title) ==
    IF items = << >> THEN << >>
    ELSE IF MapGet(items[Len(items)], "title") = title
    THEN MapGet(items[Len(items)], "netflixid")
    ELSE ScanItemsLast(SubSeq(items, 1, Len(items) - 1), title)

\* the loop over result.Items, lines 122-128
RECURSIVE ScanItems(_, _)
ScanItems(items, title) ==
    IF items = << >> THEN << >>
    ELSE IF MapGet(Head(items), "title") = title THEN MapGet(Head(items), "netflixid")
    ELSE ScanItems(Tail(items), title)

\* findNetflixID, lines 95-129 (regexp.Compile of the constant pattern never
\* fails, so the return of line 98 is never taken)
FindNetflixID(title, year, net) ==
    LET t == Normalize(title)
        c == CallUnogs(SearchURL(t, year), net)
    IN  IF c.err # Nil THEN [id |-> << >>, err |-> c.err, sent |-> c.sent]
        ELSE IF ~c.bytes.valid
        THEN [id |-> << >>,
              err |-> Wrap(NewError("malformed"), "unmarshaling netflix API response"),
              sent |-> c.sent]
        ELSE [id |-> ScanItems(c.bytes.items, t), err |-> Nil, sent |-> c.sent]

\* a seeded fault: only the first country is looked at
HasUSFirstOnly(country) == country # << >> /\ country[1] = "us"

\* the loop over lookup.Result.Country, lines 142-148
HasUS(country) == \E i \in 1..Len(country) : country[i] = "us"

\* findOnNetflixUSA, lines 131-149
FindOnNetflixUSA(id, net) ==
    LET c == CallUnogs(DetailURL(id), net)
    IN  IF c.err # Nil THEN [found |-> FALSE, err |-> c.err, sent |-> c.sent]
        ELSE IF ~c.bytes.valid
        THEN [found |-> FALSE,
              err |-> Wrap(NewError("malformed"), "unmarshaling netflix API response"),
              sent |-> c.sent]
        ELSE [found |-> HasUS(c.bytes.country), err |-> Nil, sent |-> c.sent]

\* a seeded fault: the empty identifier is not short-circuited
AfterResolveNoEmptyCheck(id, e) ==
    IF e # Nil
    THEN [next |-> "returned", err |-> Wrap(e, "finding Netflix ID")]
    ELSE [next |-> "check", err |-> Nil]

\* a seeded fault: the resolver's error is dropped
AfterResolveErrorDropped(id, e) ==
    IF id = << >>
    THEN [next |-> "returned", err |-> Nil]
    ELSE [next |-> "check", err |-> Nil]

\* a seeded fault: the resolver's error is returned without context
AfterResolveUnwrapped(id, e) ==
    IF e # Nil
    THEN [next |-> "returned", err |-> e]
    ELSE IF id = << >>
    THEN [next |-> "returned", err |-> Nil]
    ELSE [next |-> "check", err |-> Nil]

\* findOnNetflix, lines 84-92: what follows the resolver's return
AfterResolve(id, e) ==
    IF e # Nil
    THEN [next |-> "returned", err |-> Wrap(e, "finding Netflix ID")]
    ELSE IF id = << >>
    THEN [next |-> "returned", err |-> Nil]
    ELSE [next |-> "check", err |-> Nil]

(***************************************************************************)
(* The program: main and the reconcile of one item.                         *)
(***************************************************************************)
DefaultHost == "localhost"
PlexPort == 32400

\* os.Args[1:]: nothing, or -plex-host=<name>
CommandLines == {<< >>, <<[flag |-> "plex-host", value |-> "plexbox"]>>}

\* titles as the media library holds them
RawTitles ==
    { <<"a", "(", "1", "1", "1", "1", ")">>,
      <<"A", "'", " ">>,
      <<"'">> }
Years == {2010}
MediaItems == [title : RawTitles, year : Years]

NoLog == [level |-> "none", msg |-> "", field |-> << >>]

VARIABLES
    args,       \* the command line
    host,       \* *host, the flag's variable
    plexBase,   \* the base URL given to plex.New
    pc,         \* where main is
    exitCode,   \* the process's exit status, -1 while it runs
    nlibs,      \* len(sections.MediaContainer.Directory)
    libIdx,     \* index of dir in the outer loop, from 1
    content,    \* results.MediaContainer.Metadata of the current library
    itemIdx,    \* index of metadata in the inner loop, from 1
    netflixID,  \* findOnNetflix: netflixID
    idErr,      \* findOnNetflix: err as findNetflixID returned it
    found,      \* main: found
    err,        \* main: err
    resp,       \* what the network did with the request of the stage still running
    calls,      \* requests the reconcile in progress handed to httpClient.Do
    invoked,    \* the stages the reconcile in progress has invoked
    lastLog     \* the last line the logger wrote

\* the normaliser applied on its own: nraw is the title as given, ntitle the
\* variable `title` (reassigned by each application), nprev its value before
\* the last application
VARIABLES nraw, ntitle, nprev, npc

nvars == <<nraw, ntitle, nprev, npc>>

mvars == <<args, host, plexBase, pc, exitCode, nlibs, libIdx, content, itemIdx,
           netflixID, idErr, found, err, resp, calls, invoked, lastLog>>

vars == <<mvars, nvars>>

\* the locals of one reconcile
locals == <<netflixID, idErr, found, err, resp, calls, invoked>>

NoBase == [scheme |-> "", host |-> "", port |-> 0]

NormOff == nraw = << >> /\ ntitle = << >> /\ nprev = << >> /\ npc = "off"

LocalsReset ==
    /\ netflixID = << >>
    /\ idErr = Nil
    /\ found = FALSE
    /\ err = Nil
    /\ resp = NoResp
    /\ calls = << >>
    /\ invoked = << >>

\* the reconcile's frame is gone once main has taken its result
ResetLocals ==
    /\ netflixID' = << >>
    /\ idErr' = Nil
    /\ found' = FALSE
    /\ err' = Nil
    /\ resp' = NoResp
    /\ calls' = << >>
    /\ invoked' = << >>

MainAt(p) ==
    /\ host = ""
    /\ plexBase = NoBase
    /\ pc = p
    /\ exitCode = -1
    /\ nlibs = 0
    /\ libIdx = 0
    /\ content = << >>
    /\ itemIdx = 0
    /\ LocalsReset
    /\ lastLog = NoLog

Init ==
    /\ args \in CommandLines
    /\ MainAt("start")
    /\ NormOff

Fatal(msg, field) ==
    /\ lastLog' = [level |-> "fatal", msg |-> msg, field |-> field]
    /\ pc' = "exited"
    /\ exitCode' = 1

\* main, lines 38-48: the flag is declared (flag.Parse is never called, so
\* the variable keeps the default), the logger is built, the secrets are read
MainSetup ==
    /\ pc = "start"
    /\ host' = DefaultHost
    /\ \E secrets \in {"decryptError", "unmarshalError", "ok"} :
          IF secrets # "ok"
          THEN Fatal("getting secrets", << >>)
          ELSE pc' = "connect" /\ UNCHANGED <<lastLog, exitCode>>
    /\ UNCHANGED <<args, plexBase, nlibs, libIdx, content, itemIdx, locals, nvars>>

\* main, lines 50-54: plex.New on http://<host>:32400
MainConnect ==
    /\ pc = "connect"
    /\ plexBase' = [scheme |-> "http", host |-> host, port |-> PlexPort]
    /\ \E ok \in BOOLEAN :
          IF ~ok
          THEN Fatal("creating plex client", << >>)
          ELSE pc' = "libraries" /\ UNCHANGED <<lastLog, exitCode>>
    /\ UNCHANGED <<args, host, nlibs, libIdx, content, itemIdx, locals, nvars>>

\* main, lines 56-60: plexConn.GetLibraries
MainGetLibraries ==
    /\ pc = "libraries"
    /\ \/ /\ Fatal("getting libraries", << >>)
          /\ UNCHANGED <<nlibs, libIdx>>
       \/ /\ nlibs' \in 0..MaxLibs
          /\ libIdx' = 1
          /\ pc' = "sections"
          /\ UNCHANGED <<lastLog, exitCode>>
    /\ UNCHANGED <<args, host, plexBase, content, itemIdx, locals, nvars>>

\* main, lines 62-67: the next directory; its content is fetched
EnterSection ==
    /\ pc = "sections"
    /\ libIdx <= nlibs
    /\ \/ /\ Fatal("getting library", <<libIdx>>)
          /\ UNCHANGED <<content, itemIdx>>
       \/ /\ lastLog' = [level |-> "info", msg |-> "searching section", field |-> <<libIdx>>]
          /\ content' \in SeqsUpTo(MediaItems, MaxPerLib)
          /\ itemIdx' = 1
          /\ pc' = "items"
          /\ UNCHANGED exitCode
    /\ UNCHANGED <<args, host, plexBase, nlibs, libIdx, locals, nvars>>

\* main, line 62: the range over the directories is exhausted, main returns
ScanDone ==
    /\ pc = "sections"
    /\ libIdx > nlibs
    /\ pc' = "done"
    /\ exitCode' = 0
    /\ UNCHANGED <<args, host, plexBase, nlibs, libIdx, content, itemIdx, locals,
                   lastLog, nvars>>

\* main, line 69: the range over the items of the directory is exhausted
EndSection ==
    /\ pc = "items"
    /\ itemIdx > Len(content)
    /\ libIdx' = libIdx + 1
    /\ content' = << >>
    /\ itemIdx' = 0
    /\ pc' = "sections"
    /\ UNCHANGED <<args, host, plexBase, nlibs, exitCode, locals, lastLog, nvars>>

Tag(sent) == [i \in 1..Len(sent) |-> [item |-> <<libIdx, itemIdx>>, url |-> sent[i]]]

\* main line 70, findOnNetflix line 83: findNetflixID runs to its return
Resolve ==
    /\ pc = "items"
    /\ itemIdx <= Len(content)
    /\ \E net \in NetOutcomes(SearchBodies) :
          LET r == FindNetflixID(content[itemIdx].title, content[itemIdx].year, net)
          IN  /\ netflixID' = r.id
              /\ idErr' = r.err
              /\ resp' = IF r.sent = << >> THEN NoResp ELSE net
              /\ calls' = calls \o Tag(r.sent)
              /\ invoked' = Append(invoked, "findNetflixID")
    /\ pc' = "resolved"
    /\ UNCHANGED <<args, host, plexBase, exitCode, nlibs, libIdx, content, itemIdx,
                   found, err, lastLog, nvars>>

\* findOnNetflix lines 84-90: the resolver's return is examined; the
\* resolver's frame (the response it read) is gone
Examine ==
    /\ pc = "resolved"
    /\ LET a == AfterResolve(netflixID, idErr)
       IN  /\ found' = FALSE
           /\ err' = a.err
           /\ pc' = a.next
    /\ resp' = NoResp
    /\ UNCHANGED <<args, host, plexBase, exitCode, nlibs, libIdx, content, itemIdx,
                   netflixID, idErr, calls, invoked, lastLog, nvars>>

\* findOnNetflix line 92: the availability check runs and its result is
\* returned as it is
Check ==
    /\ pc = "check"
    /\ \E net \in NetOutcomes(DetailBodies) :
          LET r == FindOnNetflixUSA(netflixID, net)
          IN  /\ found' = r.found
              /\ err' = r.err
              /\ resp' = IF r.sent = << >> THEN NoResp ELSE net
              /\ calls' = calls \o Tag(r.sent)
              /\ invoked' = Append(invoked, "findOnNetflixUSA")
    /\ pc' = "returned"
    /\ UNCHANGED <<args, host, plexBase, exitCode, nlibs, libIdx, content, itemIdx,
                   netflixID, idErr, lastLog, nvars>>

\* a seeded fault: an item's error is not fatal, the scan goes on
HandleResultContinuing ==
    /\ pc = "returned"
    /\ lastLog' = IF err = Nil /\ found
                  THEN [level |-> "info", msg |-> "found on netflix",
                        field |-> content[itemIdx].title]
                  ELSE lastLog
    /\ itemIdx' = itemIdx + 1
    /\ pc' = "items"
    /\ ResetLocals
    /\ UNCHANGED <<args, host, plexBase, nlibs, libIdx, content, exitCode, nvars>>

\* main, lines 71-77: logger.Fatal exits the process; a match is logged
HandleResult ==
    /\ pc = "returned"
    /\ IF err # Nil
       THEN /\ Fatal("finding on Netflix", content[itemIdx].title)
            /\ UNCHANGED <<itemIdx, locals>>
       ELSE /\ lastLog' = IF found
                          THEN [level |-> "info", msg |-> "found on netflix",
                                field |-> content[itemIdx].title]
                          ELSE lastLog
            /\ itemIdx' = itemIdx + 1
            /\ pc' = "items"
            /\ ResetLocals
            /\ UNCHANGED exitCode
    /\ UNCHANGED <<args, host, plexBase, nlibs, libIdx, content, nvars>>

Next ==
    \/ MainSetup
    \/ MainConnect
    \/ MainGetLibraries
    \/ EnterSection
    \/ ScanDone
    \/ EndSection
    \/ Resolve
    \/ Examine
    \/ Check
    \/ HandleResult

Spec == Init /\ [][Next]_vars

(***************************************************************************)
(* Properties of the scan.                                                  *)
(***************************************************************************)
\* the reconcile in progress has left the resolver behind
PastResolve == pc \in {"check", "returned", "exited"} /\ invoked # << >>

\* the reconcile in progress has returned to main
Returned == pc \in {"returned", "exited"} /\ invoked # << >>

NoDetailCall == \A i \in 1..Len(calls) : calls[i].url.endpoint # "detail"

\* C1: when the resolver returns the empty identifier and no error, the
\* reconcile returns (false, nil), the availability checker is not invoked
\* and no detail request is sent; no detail request ever carries an empty
\* identifier.
C1_EmptyIdentifierShortCircuits ==
    /\ (PastResolve /\ idErr = Nil /\ netflixID = << >>) =>
          /\ pc # "check"
          /\ found = FALSE
          /\ err = Nil
          /\ invoked = <<"findNetflixID">>
          /\ NoDetailCall
    /\ \A i \in 1..Len(calls) :
          calls[i].url.endpoint = "detail" => calls[i].url.q # << >>

C1_Witness ==
    /\ pc = "returned"
    /\ idErr = Nil
    /\ netflixID = << >>
    /\ Len(calls) = 1
    /\ err = Nil

\* C2: for a search response that parses, the resolver returns the
\* netflixid of the first entry of ITEMS whose title equals the normalised
\* query title, and the empty identifier with no error when no entry does.
C2_FirstExactMatchWins ==
    (pc = "resolved" /\ resp.kind = "ok" /\ resp.body.valid) =>
        LET t == Normalize(content[itemIdx].title)
            items == resp.body.items
            matches == {i \in 1..Len(items) : MapGet(items[i], "title") = t}
        IN  /\ idErr = Nil
            /\ matches = {} => netflixID = << >>
            /\ matches # {} =>
                 \E i \in matches :
                    /\ \A j \in matches : i <= j
                    /\ netflixID = MapGet(items[i], "netflixid")

\* two entries match and carry different identifiers: the first one's is returned
C2_Witness ==
    /\ pc = "resolved"
    /\ resp.kind = "ok"
    /\ resp.body.valid
    /\ Len(resp.body.items) = 2
    /\ MapGet(resp.body.items[1], "title") = Normalize(content[itemIdx].title)
    /\ MapGet(resp.body.items[2], "title") = Normalize(content[itemIdx].title)
    /\ MapGet(resp.body.items[1], "netflixid") # MapGet(resp.body.items[2], "netflixid")
    /\ netflixID = <<"1">>

\* the error a stage returns for what the network did with its request
StageError(r) ==
    CASE r.kind = "none"      -> Wrap(NewError("requestBuild"), "creating request")
      [] r.kind = "transport" -> NewError("transport")
      [] r.kind = "bodyread"  -> Wrap(NewError("bodyRead"), "reading uNoGS body")
      [] r.kind = "ok" /\ ~r.body.valid ->
             Wrap(NewError("malformed"), "unmarshaling netflix API response")
      [] OTHER -> Nil

\* the call boundaries an error crosses on its way to main
BoundariesCrossed(e) == IF e.kind = "malformed" THEN 2 ELSE 3

\* C4 as stated: every error carries one layer of context for each call
\* boundary it crossed (callUnogs, the stage, findOnNetflix).
C4_OneLayerPerBoundary ==
    (Returned /\ err # Nil) => Len(err.layers) = BoundariesCrossed(err)

\* C4 amended: every error is propagated to main, never recovered or
\* retried, but the context is uneven: callUnogs wraps request-build and
\* body-read errors and passes transport errors bare; the two stages wrap
\* only their own parse errors; findOnNetflix wraps the resolver's errors
\* with "finding Netflix ID" and passes the checker's errors as they are.
C4_ErrorsPropagateWithUnevenContext ==
    /\ pc = "resolved" => idErr = StageError(resp)
    /\ (PastResolve /\ idErr # Nil) =>
          err = [kind |-> idErr.kind, layers |-> <<"finding Netflix ID">> \o idErr.layers]
    /\ (Returned /\ Len(invoked) = 2) => err = StageError(resp)
    /\ (pc = "exited" /\ invoked # << >>) =>
          err # Nil /\ lastLog.level = "fatal" /\ exitCode = 1
    /\ Len(calls) <= Len(invoked)

\* a transport failure of the availability stage reaches main with no context
C4_Witness ==
    /\ pc = "exited"
    /\ Len(invoked) = 2
    /\ resp.kind = "transport"
    /\ err = NewError("transport")

\* C5 as stated: a failure status ends in a malformed-response error.
C5_FailureStatusIsMalformed ==
    /\ (pc = "resolved" /\ resp.kind = "ok" /\ resp.status # 200) =>
          idErr.kind = "malformed"
    /\ (Returned /\ Len(invoked) = 2 /\ resp.kind = "ok" /\ resp.status # 200) =>
          err.kind = "malformed"

\* C5 amended: the status is never looked at: whatever it is, a body that
\* was read gives an error exactly when it does not parse, and that error is
\* the malformed-response error; a failure status with a body that parses
\* gives the normal result.
C5_StatusIgnored ==
    /\ (pc = "resolved" /\ resp.kind = "ok") =>
          /\ (idErr = Nil) <=> resp.body.valid
          /\ ~resp.body.valid => idErr.kind = "malformed"
    /\ (Returned /\ Len(invoked) = 2 /\ resp.kind = "ok") =>
          /\ (err = Nil) <=> resp.body.valid
          /\ ~resp.body.valid => err.kind = "malformed"

\* status 500 with a body that parses and holds no entry: "not found", no error
C5_Witness ==
    /\ pc = "resolved"
    /\ resp.kind = "ok"
    /\ resp.status = 500
    /\ resp.body.valid
    /\ resp.body.items = << >>
    /\ idErr = Nil
    /\ netflixID = << >>

\* C6: a failure during resolution makes the reconcile return false with an
\* error, and the availability stage is never reached.
C6_ResolutionFailureStopsReconcile ==
    /\ (pc = "resolved" /\ (resp.kind # "ok" \/ ~resp.body.valid)) => idErr # Nil
    /\ (PastResolve /\ idErr # Nil) =>
          /\ pc # "check"
          /\ found = FALSE
          /\ err # Nil
          /\ invoked = <<"findNetflixID">>
          /\ NoDetailCall

C6_Witness ==
    /\ pc = "returned"
    /\ idErr.kind = "transport"
    /\ err.kind = "transport"
    /\ invoked = <<"findNetflixID">>

\* C7: for a detail response that parses, the checker returns true exactly
\* when some entry of RESULT.country has ccode "us", wherever it stands, and
\* false with no error otherwise.
C7_AvailableIffUSListed ==
    (Returned /\ Len(invoked) = 2 /\ resp.kind = "ok" /\ resp.body.valid) =>
        /\ err = Nil
        /\ found <=> (\E i \in 1..Len(resp.body.country) : resp.body.country[i] = "us")

\* "us" is listed second
C7_Witness ==
    /\ pc = "returned"
    /\ Len(invoked) = 2
    /\ resp.kind = "ok"
    /\ resp.body.valid
    /\ resp.body.country = <<"ca", "us">>
    /\ found

FoundLine(title) == [level |-> "info", msg |-> "found on netflix", field |-> title]

C8_Step ==
    /\ pc # "exited"
    /\ (pc = "returned" /\ err # Nil) =>
          /\ pc' = "exited"
          /\ exitCode' = 1
          /\ lastLog'.level = "fatal"
          /\ UNCHANGED <<libIdx, itemIdx, calls, invoked>>
    /\ (pc = "returned" /\ err = Nil) =>
          /\ pc' = "items"
          /\ itemIdx' = itemIdx + 1
          /\ lastLog' = IF found THEN FoundLine(content[itemIdx].title) ELSE lastLog
    /\ (pc # "returned" /\ lastLog' # lastLog) => lastLog'.msg # "found on netflix"
    /\ (pc = "items" /\ itemIdx <= Len(content)) => invoked = << >> /\ calls = << >>

\* C8: the first error a reconcile returns ends the process: nothing is
\* looked up or reported afterwards; every item before it was handled in
\* full, and reported as found exactly when its result was true.
C8_FirstErrorEndsScan == [][C8_Step]_vars

\* the process died on the second item of a library while a third item or
\* another library was still to come
C8_Witness ==
    /\ pc = "exited"
    /\ lastLog.msg = "finding on Netflix"
    /\ itemIdx >= 2
    /\ (itemIdx < Len(content) \/ libIdx < nlibs)

\* C9: the host the media-library client connects to is the value given for
\* -plex-host, and "localhost" only when the flag is not given.
C9_FlagSelectsHost ==
    plexBase # NoBase =>
        plexBase.host = IF args = << >> THEN DefaultHost ELSE args[1].value

C10_Inv ==
    /\ Len(calls) <= 2
    /\ \A i \in 1..Len(calls) : calls[i].item = <<libIdx, itemIdx>>
    /\ Len(calls) >= 1 =>
          /\ calls[1].url.endpoint = "search"
          /\ calls[1].url.q = QueryEscape(Normalize(content[itemIdx].title))
          /\ calls[1].url.year = content[itemIdx].year
          /\ invoked # << >>
    /\ Len(calls) = 2 =>
          /\ calls[2].url.endpoint = "detail"
          /\ calls[2].url.q = netflixID
          /\ netflixID # << >>
          /\ idErr = Nil
          /\ invoked = <<"findNetflixID", "findOnNetflixUSA">>

C10_Step ==
    /\ calls' # calls =>
          \/ calls' = << >> /\ pc = "returned"
          \/ Len(calls') = Len(calls) + 1 /\ SubSeq(calls', 1, Len(calls)) = calls
    /\ <<libIdx', itemIdx'>> # <<libIdx, itemIdx>> =>
          /\ calls' = << >>
          /\ \/ libIdx' = libIdx /\ itemIdx' = itemIdx + 1
             \/ libIdx' = libIdx + 1 /\ itemIdx' = 0
             \/ pc = "libraries"

\* C10: a reconcile sends at most two requests and repeats none: the search
\* request, then at most one detail request, sent only once the resolver has
\* returned a non-empty identifier; the requests of one item never mix with
\* another's and the items are taken in the order of enumeration.
C10_TwoCallsInOrder == []C10_Inv /\ [][C10_Step]_vars

\* the second item of the second library has had both its requests sent
C10_Witness ==
    /\ pc = "returned"
    /\ libIdx = 2
    /\ itemIdx = 2
    /\ Len(calls) = 2

(***************************************************************************)
(* The normaliser on its own.                                               *)
(***************************************************************************)
InitNorm ==
    /\ args = << >>
    /\ MainAt("idle")
    /\ \E k \in 0..MaxLen : nraw \in [1..k -> NormChars]
    /\ ntitle = nraw
    /\ nprev = << >>
    /\ npc = "raw"

\* first application: title = normalise(title)
NormalizeOnce ==
    /\ npc = "raw"
    /\ ntitle' = Normalize(ntitle)
    /\ nprev' = ntitle
    /\ npc' = "once"
    /\ UNCHANGED <<nraw, mvars>>

\* the normalised title is normalised again
NormalizeAgain ==
    /\ npc = "once"
    /\ ntitle' = Normalize(ntitle)
    /\ nprev' = ntitle
    /\ npc' = "twice"
    /\ UNCHANGED <<nraw, mvars>>

NextNorm == NormalizeOnce \/ NormalizeAgain

SpecNorm == InitNorm /\ [][NextNorm]_vars

\* C3 as stated: normalising a normalised title changes nothing.
C3_Idempotent == npc = "twice" => ntitle = nprev

\* C3 amended: normalising a normalised title changes nothing unless the
\* normalised title itself still ends in "(YYYY)"; in every case the result
\* holds no apostrophe and no surrounding whitespace.
C3_IdempotentUnlessYearRemains ==
    /\ npc = "twice" /\ ~EndsWithYear(nprev) => ntitle = nprev
    /\ npc # "raw" =>
         /\ \A i \in 1..Len(ntitle) : ntitle[i] # Apostrophe
         /\ ntitle # << >> => ntitle[1] \notin Spaces /\ ntitle[Len(ntitle)] \notin Spaces

\* a title whose year suffix and apostrophe were removed and which the
\* second application left alone
C3_Witness ==
    /\ npc = "twice"
    /\ nraw = <<"a", "(", "1", "1", "1", "1", ")">>
    /\ nprev = <<"a">>
    /\ ntitle = nprev

====
